---- MODULE Spec2Model ----
(***************************************************************************)
(* BODesigner (src/bbo/algorithms/bo.py): a Bayesian-optimization designer *)
(* with a bootstrap (random) phase and a model-based phase.  The model     *)
(* keeps the designer's history (_trials), its configuration, and a record *)
(* of the most recent call: the branch it took, the collaborators it       *)
(* called, in order, and the batch it returned, each row tagged with the   *)
(* array and index it was taken from.                                      *)
(***************************************************************************)
EXTENDS Integers, Sequences, FiniteSets, TLC

VARIABLES cfg, trials, completedLog, phaseLog, lastCall

vars == <<cfg, trials, completedLog, phaseLog, lastCall>>

(***************************************************************************)
(* Bounds of the model.                                                    *)
(***************************************************************************)
\* n_init ranges over 0..MaxNInit
MaxNInit == 1
\* q ranges over 1..MaxQ in Spec
MaxQ == 1
\* the history holds at most MaxHist trials
MaxHist == 2
\* count is None or in 0..MaxCount
MaxCount == 1
\* the evolutionary sub-designer's population has at most MaxPop rows in Spec
\* and SpecConfig, whose properties do not read the batch's rows; SpecSuggest
\* and SpecAcqf have populations of up to AcqfMaxPop rows
MaxPop == 0
\* acqf_config['epochs'] is 0 or MaxEpochs
MaxEpochs == 1
\* q ranges over 1..AcqfMaxQ in SpecSuggest and SpecAcqf
AcqfMaxQ == 3
\* the population has at most AcqfMaxPop rows in SpecSuggest and SpecAcqf
AcqfMaxPop == 3

(***************************************************************************)
(* Values.                                                                 *)
(***************************************************************************)
\* suggest(count=None): the absent count
NoCount == -1

Counts == {NoCount} \cup (0..MaxCount)

\* the box [lb, ub] of every continuous parameter of the search space
Lb == 0
Ub == 1

Points(dim) == [1..dim -> Lb..Ub]

SeqsOfLen(S, n) == [1..n -> S]

SeqsUpTo(S, n) == UNION {SeqsOfLen(S, k) : k \in 0..n}

Min(a, b) == IF a < b THEN a ELSE b

\* the completed trials a caller may hand to update: parameters and one label
TrialUniverse(dim) ==
  {[x |-> [i \in 1..dim |-> Lb], y |-> 0], [x |-> [i \in 1..dim |-> Ub], y |-> 1]}

SpaceKinds == {"continuous", "mixed", "discrete"}

\* the types of converter.output_spec for a search space
OutputSpecTypes(space) ==
  CASE space = "continuous" -> {"DOUBLE"}
    [] space = "mixed" -> {"DOUBLE", "INTEGER"}
    [] OTHER -> {"INTEGER"}

\* construction goes on as soon as one output spec is DOUBLE
PostInitAnyDouble(space) == \E t \in OutputSpecTypes(space) : t = "DOUBLE"

\* __attrs_post_init__: every output spec must be DOUBLE, or construction raises
PostInitOK(space) == \A t \in OutputSpecTypes(space) : t = "DOUBLE"

(***************************************************************************)
(* The validators of the constructor's arguments.  The acqf_type argument  *)
(* is kept as its shape (acqf_type: "single" for a str, "list" for a list) *)
(* and its content (acqf_names: the one name, or the names of the list).   *)
(***************************************************************************)
NoneValue == "None"

MeanTypes == {"constant", "mlp"}

KernelTypes == {"matern52", "mlp", "kumar"}

MllOptimizers == {"l-bfgs", "adam"}

AcqfTypes == {"qEI", "qUCB", "qPI", "qlogEI"}

AcqfOptimizers == {"l-bfgs", "nsgaii"}

\* validators.in_(options)
In(value, options) == value \in options

\* validators.optional(validators.in_(options))
OptionalIn(value, options) == value = NoneValue \/ In(value, options)

\* validators.deep_iterable(validators.in_(options)): every member the
\* argument yields is an option.  A list yields its names; a str yields its
\* characters, none of which is an option, so of the strs only '' passes
DeepIterableIn(c) ==
  IF c.acqf_type = "list"
  THEN \A i \in DOMAIN c.acqf_names : In(c.acqf_names[i], AcqfTypes)
  ELSE c.acqf_names[1] = ""

\* validators.or_(in_, deep_iterable(in_)) on acqf_type
AcqfTypeValidator(c) ==
  (c.acqf_type = "single" /\ In(c.acqf_names[1], AcqfTypes)) \/ DeepIterableIn(c)

ValidatorsOK(c) ==
  /\ OptionalIn(c.mean_type, MeanTypes)
  /\ OptionalIn(c.kernel_type, KernelTypes)
  /\ In(c.mll_optimizer, MllOptimizers)
  /\ AcqfTypeValidator(c)
  /\ In(c.acqf_optimizer, AcqfOptimizers)

\* the validators run in __init__, before __attrs_post_init__
ConstructionError(c) ==
  IF ~ValidatorsOK(c) THEN "ValueError"
  ELSE IF ~PostInitOK(c.space) THEN "Unsupported variable type for BO"
  ELSE ""

Constructed == ConstructionError(cfg) = ""

(***************************************************************************)
(* Rows of a batch, tagged with their origin.                              *)
(***************************************************************************)
\* the index itself is stored where the row it selects should be
RowsOfIndices(src, X, idx) ==
  [i \in 1..Len(idx) |->
     [src |-> src, idx |-> idx[i], x |-> [j \in DOMAIN X[idx[i]] |-> idx[i]]]]

Rows(src, X, idx) ==
  [i \in 1..Len(idx) |-> [src |-> src, idx |-> idx[i], x |-> X[idx[i]]]]

AllRows(src, X) == [i \in 1..Len(X) |-> [src |-> src, idx |-> i, x |-> X[i]]]

\* np.random.choice(n, k, replace=False): k pairwise distinct indices of 1..n
\* sampling with replacement
ChoiceWithReplacement(n, k) == SeqsOfLen(1..n, k)

Choice(n, k) ==
  {f \in SeqsOfLen(1..n, k) : \A i, j \in 1..k : i # j => f[i] # f[j]}

(***************************************************************************)
(* The random sub-designer (bbo.algorithms.random.RandomDesigner).         *)
(***************************************************************************)
RandomCount(count) == IF count = NoCount \/ count = 0 THEN 1 ELSE count

RandomSuggest(dim, count) ==
  {[i \in 1..Len(X) |-> [src |-> "random", idx |-> i, parameters |-> X[i]]] :
     X \in SeqsOfLen(Points(dim), RandomCount(count))}

(***************************************************************************)
(* The converter (DefaultTrialConverter), row by row.                      *)
(***************************************************************************)
ToFeatures(ts) ==
  [i \in 1..Len(ts) |-> [src |-> ts[i].src, idx |-> ts[i].idx, x |-> ts[i].parameters]]

ToTrials(rows) ==
  [i \in 1..Len(rows) |->
     [src |-> rows[i].src, idx |-> rows[i].idx, parameters |-> rows[i].x]]

\* the keys of the features convert() returns with merge_by_type=True
FeatureKeys(space) == OutputSpecTypes(space)

(***************************************************************************)
(* The evolutionary sub-designer (NSGAIIDesigner) after its generations:   *)
(* curr_pop() is a population of any size up to maxPop and result() a part *)
(* of it of any size, rows kept in population order.                       *)
(***************************************************************************)
IncreasingIdx(n) ==
  {f \in UNION {SeqsOfLen(1..n, k) : k \in 0..n} :
     \A i, j \in DOMAIN f : i < j => f[i] < f[j]}

NsgaiiOutputs(dim, maxPop) ==
  UNION {{[pop_X |-> pop, pareto_X |-> [i \in 1..Len(f) |-> pop[f[i]]]] :
            f \in IncreasingIdx(Len(pop))} :
         pop \in SeqsUpTo(Points(dim), maxPop)}

\* acqf_config without an 'epochs' key
NotConfigured == -1

DefaultEpochs == 200

\* self._acqf_config.get('epochs', 200)
Epochs(c) == IF c.epochs = NotConfigured THEN DefaultEpochs ELSE c.epochs

\* the three calls of one generation, epochs times over
EpochSteps(epochs) ==
  [i \in 1..(3 * epochs) |->
     <<"nsgaii.suggest", "experimenter.evaluate", "nsgaii.update">>[((i - 1) % 3) + 1]]

(***************************************************************************)
(* optimize_acqf, evolutionary branch: batch assembly.                     *)
(***************************************************************************)
\* `x in pareto_X` with x a row and pareto_X a 2-d numpy array is
\* (pareto_X == x).any(): true as soon as one coordinate of x equals the
\* same coordinate of some row
NumpyContains(x, A) == \E i \in DOMAIN A : \E j \in DOMAIN x : A[i][j] = x[j]

NotInPareto(x, pareto_X) == ~NumpyContains(x, pareto_X)

DiffX(pop_X, pareto_X) == SelectSeq(pop_X, LAMBDA x : NotInPareto(x, pareto_X))

\* the Pareto rows already taken are not subtracted from the quota
DiffQuotaIgnoringPareto(q, p, nd) == Min(nd, q)

\* every row of diff_X is taken, whatever the quota
DiffQuotaTakeAll(q, p, nd) == nd

DiffQuota(q, p, nd) == Min(nd, q - p)

\* the rows already assembled are not subtracted from the random fill
RandomQuotaWholeBatch(q, n) == q

RandomQuota(q, n) == q - n

ParetoBranch(q, p) == p >= q

AssembleBatch(dim, q, pareto_X, diff_X) ==
  IF ParetoBranch(q, Len(pareto_X))
  THEN {[next_X |-> Rows("pareto", pareto_X, idx), steps |-> <<>>] :
          idx \in Choice(Len(pareto_X), q)}
  ELSE LET head == AllRows("pareto", pareto_X)
           fills == IF Len(diff_X) > 0
                    THEN {Rows("diff", diff_X, idx) :
                            idx \in Choice(Len(diff_X),
                                           DiffQuota(q, Len(pareto_X), Len(diff_X)))}
                    ELSE {<<>>}
       IN  UNION {LET quota == RandomQuota(q, Len(head \o fill))
                  IN  IF quota > 0
                      THEN {[next_X |-> head \o fill \o ToFeatures(r),
                             steps |-> <<"init_designer.suggest", "converter.to_features">>] :
                              r \in RandomSuggest(dim, quota)}
                      ELSE {[next_X |-> head \o fill, steps |-> <<>>]} :
                  fill \in fills}

(***************************************************************************)
(* suggest, lines 204-213: the training data.  Labels are integers; the    *)
(* standard deviation and the divisor are in units of 1/Scale, the         *)
(* standardized labels in units of 1/ZScale.                               *)
(***************************************************************************)
Scale == 1000000

\* the 1e-6 of line 210, in units of 1/Scale
Eps == 1

ZScale == 100

\* the square root is taken to 1/SqrtScale
SqrtScale == 10

\* what mean() and std() of an empty array are, and 0/0
NaN == -999999999

RECURSIVE Sum(_)
Sum(s) == IF s = <<>> THEN 0 ELSE Head(s) + Sum(Tail(s))

Isqrt(x) == CHOOSE r \in 0..x : r * r <= x /\ (r + 1) * (r + 1) > x

\* n * (y[i] - y.mean())
Deviations(y) == [i \in DOMAIN y |-> Len(y) * y[i] - Sum(y)]

\* y.std(), the population standard deviation: sqrt(sum(d^2) * n) / n^2
Std(y) ==
  IF y = <<>> THEN NaN
  ELSE LET d == Deviations(y)
           ss == Sum([i \in DOMAIN d |-> d[i] * d[i]])
       IN  (Isqrt(ss * Len(y) * SqrtScale * SqrtScale) * (Scale \div SqrtScale))
             \div (Len(y) * Len(y))

\* the 1e-6 is left out
DivisorWithoutEps(std) == std

\* train_Y.std() + 1e-6
Divisor(std) == IF std = NaN THEN NaN ELSE std + Eps

\* (train_Y - train_Y.mean()) / (train_Y.std() + 1e-6)
Standardize(y) ==
  LET d == Deviations(y)
      div == Divisor(Std(y))
  IN  [i \in DOMAIN y |->
         IF div = NaN \/ div = 0 THEN NaN
         ELSE (d[i] * Scale * ZScale) \div (Len(y) * div)]

\* the oldest trial is left out of the training data
TrainingInputWindow(hist) == IF Len(hist) > 1 THEN Tail(hist) ELSE hist

\* convert(self._trials): the whole history is converted
TrainingInput(hist) == hist

\* what create_model is handed
TrainingData(ts) ==
  LET y == [i \in DOMAIN ts |-> ts[i].y]
  IN  [X |-> [i \in DOMAIN ts |-> ts[i].x], Y |-> Standardize(y),
       divisor |-> Divisor(Std(y))]

NoTrain == [X |-> <<>>, Y |-> <<>>, divisor |-> NaN]

\* what a call leaves behind for the observer
CallRecord(op, count, phase, outcome, error, steps, ret, pop_X, pareto_X, diff_X, completed) ==
  [op |-> op, count |-> count, phase |-> phase, outcome |-> outcome, error |-> error,
   steps |-> steps, ret |-> ret, pop_X |-> pop_X, pareto_X |-> pareto_X,
   diff_X |-> diff_X, completed |-> completed, train |-> NoTrain]

\* a call that got past line 210 has built its training data
Trained(r, data) ==
  IF Len(r.steps) >= 4 /\ r.steps[4] = "standardize"
  THEN [r EXCEPT !.train = data]
  ELSE r

NoCall == CallRecord("none", NoCount, "na", "na", "", <<>>, <<>>, <<>>, <<>>, <<>>, <<>>)

\* what the evolutionary sub-designer answers during one optimize_acqf call;
\* the continuous optimizer asks it nothing
NoEnv == [pop_X |-> <<>>, pareto_X |-> <<>>]

\* obj.num_metrics(): one metric per name of a list, one for a single name
NumAcqfMetrics(c) == IF c.acqf_type = "list" THEN Len(c.acqf_names) ELSE 1

\* acqf_obj iterates `acqf`: an acquisition function that is no list cannot
\* be iterated, and an empty list leaves torch.hstack nothing to stack
AcqfObjRaises(c) == c.acqf_type = "single" \/ c.acqf_names = <<>>

AcqfEnvs(c) ==
  IF c.acqf_optimizer = "nsgaii" /\ ~(AcqfObjRaises(c) /\ Epochs(c) >= 1)
  THEN NsgaiiOutputs(c.dim, c.max_pop)
  ELSE {NoEnv}

AcqfRaised(error, steps) ==
  [outcome |-> "raise", error |-> error, steps |-> steps,
   next_X |-> <<>>, pop_X |-> <<>>, pareto_X |-> <<>>, diff_X |-> <<>>]

\* optimize_acqf: the set of its possible results, given the evolutionary
\* sub-designer's answer o
OptimizeAcqf(c, o) ==
  IF c.acqf_optimizer = "l-bfgs"
  THEN IF c.acqf_type = "list"
       THEN \* botorch is handed a list where it calls an acquisition function
            {AcqfRaised("TypeError", <<"botorch.optimize_acqf">>)}
       ELSE {[outcome |-> "ok", error |-> "", steps |-> <<"botorch.optimize_acqf">>,
              next_X |-> AllRows("lbfgs", X), pop_X |-> <<>>, pareto_X |-> <<>>,
              diff_X |-> <<>>] : X \in SeqsOfLen(Points(c.dim), c.q)}
  ELSE IF c.acqf_optimizer = "nsgaii"
  THEN LET warn == IF NumAcqfMetrics(c) <= 1 THEN <<"logger.warning">> ELSE <<>>
       IN  IF AcqfObjRaises(c) /\ Epochs(c) >= 1
           THEN \* the first evaluation of the first generation raises
                {AcqfRaised("TypeError",
                            warn \o <<"nsgaii.suggest", "experimenter.evaluate">>)}
           ELSE LET diff_X == DiffX(o.pop_X, o.pareto_X)
                IN  {[outcome |-> "ok", error |-> "",
                      steps |-> warn \o EpochSteps(Epochs(c))
                                  \o <<"nsgaii.result", "nsgaii.curr_pop">> \o b.steps,
                      next_X |-> b.next_X, pop_X |-> o.pop_X,
                      pareto_X |-> o.pareto_X, diff_X |-> diff_X] :
                       b \in AssembleBatch(c.dim, c.q, o.pareto_X, diff_X)}
  ELSE {AcqfRaised("NotImplementedError", <<>>)}

(***************************************************************************)
(* suggest.                                                                *)
(***************************************************************************)
\* the model-based phase starts one trial early
PhaseOffByOne(n, n_init) == IF n + 1 < n_init THEN "bootstrap" ELSE "model"

\* the comparison is inverted
PhaseInverted(n, n_init) == IF n >= n_init THEN "bootstrap" ELSE "model"

Phase(n, n_init) == IF n < n_init THEN "bootstrap" ELSE "model"

BootstrapSuggest(c, count) ==
  {CallRecord("suggest", count, "bootstrap", "ok", "", <<"init_designer.suggest">>,
              r, <<>>, <<>>, <<>>, <<>>) : r \in RandomSuggest(c.dim, count)}

\* a failed step is attempted once more before the error leaves the call
RaisedAfterRetry(count, error, steps) ==
  CallRecord("suggest", count, "model", "raise", error,
             IF steps = <<>> THEN steps ELSE Append(steps, steps[Len(steps)]),
             <<>>, <<>>, <<>>, <<>>, <<>>)

Raised(count, error, steps) ==
  CallRecord("suggest", count, "model", "raise", error, steps,
             <<>>, <<>>, <<>>, <<>>, <<>>)

\* only three metrics and more are refused
MultiObjectiveAboveTwo(num_metrics) == num_metrics > 2

\* train_Y.shape[-1] > 1
MultiObjective(num_metrics) == num_metrics > 1

\* the steps of lines 197-210, in order
DataSteps == <<"converter.convert", "check_domain", "check_objective", "standardize">>

FitSteps == DataSteps \o <<"create_model", "optimize_model">>

\* optimize_model: the branch the likelihood optimizer's name selects
OptimizeModelBranch(c) ==
  CASE c.mll_optimizer = "l-bfgs" -> "fit_gpytorch_mll"
    [] c.mll_optimizer = "adam" -> "adam"
    [] OTHER -> "NotImplementedError"

\* the call without its training data, which Suggest adds
ModelSuggest(c, count, env) ==
  IF ~("DOUBLE" \in FeatureKeys(c.space) /\ Cardinality(FeatureKeys(c.space)) = 1)
  THEN {Raised(count, "Unsupported variable type for BO", SubSeq(DataSteps, 1, 2))}
  ELSE IF MultiObjective(c.num_metrics)
  THEN {Raised(count, "Unsupported for multiobjective BO", SubSeq(DataSteps, 1, 3))}
  ELSE IF OptimizeModelBranch(c) = "NotImplementedError"
  THEN {Raised(count, "NotImplementedError", FitSteps)}
  ELSE \* the fit may fail inside the library
       {Raised(count, "fit failed", FitSteps)}
       \cup
       {IF o.outcome = "ok"
        THEN CallRecord("suggest", count, "model", "ok", "",
                        FitSteps \o <<"create_acqf", "optimize_acqf">> \o o.steps
                          \o <<"converter.to_trials">>,
                        ToTrials(o.next_X), <<>>, <<>>, <<>>, <<>>)
        ELSE Raised(count, o.error,
                    FitSteps \o <<"create_acqf", "optimize_acqf">> \o o.steps) :
        o \in OptimizeAcqf(c, env)}

SuggestOutcomes(c, hist, count, env) ==
  IF Phase(Len(hist), c.n_init) = "bootstrap"
  THEN BootstrapSuggest(c, count)
  ELSE ModelSuggest(c, count, env)

\* the sub-designer answers a suggest call may meet
SuggestEnvs(c, hist) ==
  IF Phase(Len(hist), c.n_init) = "bootstrap" \/ MultiObjective(c.num_metrics)
  THEN {NoEnv}
  ELSE AcqfEnvs(c)

\* the branches suggest has taken so far, in order, repeats collapsed
PhaseLogAfter(log, phase) ==
  IF (log # <<>> /\ log[Len(log)] = phase) \/ Len(log) >= 3
  THEN log
  ELSE Append(log, phase)

\* suggest records its own suggestions in the history
TrialsWithSuggested(hist, r) == hist \o r.ret

\* suggest reads _trials (lines 193 and 197) and never writes it
TrialsAfterSuggest(hist, r) == hist

Suggest ==
  /\ Constructed
  /\ \E data \in {TrainingData(TrainingInput(trials))} :
       \E count \in Counts :
       \E env \in SuggestEnvs(cfg, trials) :
       \E r \in SuggestOutcomes(cfg, trials, count, env) :
         /\ lastCall' = Trained(r, data)
         /\ phaseLog' = PhaseLogAfter(phaseLog, r.phase)
         /\ trials' = TrialsAfterSuggest(trials, r)
  /\ UNCHANGED <<cfg, completedLog>>

(***************************************************************************)
(* update.                                                                 *)
(***************************************************************************)
\* update replaces the history by the new batch
UpdateReplacing(hist, completed) == completed

\* update drops the trials the history already holds
UpdateDeduplicating(hist, completed) ==
  hist \o SelectSeq(completed, LAMBDA t : \A i \in DOMAIN hist : hist[i] # t)

UpdateTrials(hist, completed) == hist \o completed

Update ==
  /\ Constructed
  /\ \E completed \in SeqsUpTo(TrialUniverse(cfg.dim), MaxHist - Len(trials)) :
       /\ trials' = UpdateTrials(trials, completed)
       /\ completedLog' = completedLog \o completed
       /\ lastCall' = CallRecord("update", NoCount, "na", "ok", "", <<>>, <<>>,
                                 <<>>, <<>>, <<>>, completed)
  /\ UNCHANGED <<cfg, phaseLog>>

(***************************************************************************)
(* The designer over its life.                                             *)
(***************************************************************************)
\* max_pop is no field of the designer: it bounds what the evolutionary
\* sub-designer hands back
\* the surrogate's arguments are left at their defaults
AllConfigs(dims, qs, pops) ==
  {c \in [n_init : 0..MaxNInit, q : qs, acqf_optimizer : {"l-bfgs", "nsgaii"},
          acqf_type : {"single", "list"}, acqf_names : {<<"qEI">>, <<"qEI", "qUCB">>},
          epochs : {0, MaxEpochs}, space : SpaceKinds,
          num_metrics : 1..2, dim : dims, max_pop : pops,
          mll_optimizer : {"l-bfgs"}, mean_type : {NoneValue}, kernel_type : {NoneValue}] :
     /\ c.acqf_optimizer = "l-bfgs" => c.epochs = 0
     /\ c.acqf_type = "single" <=> Len(c.acqf_names) = 1}

\* a constructor call that raises leaves no designer, only its error
AfterConstruction(c) ==
  IF ConstructionError(c) = ""
  THEN NoCall
  ELSE CallRecord("__init__", NoCount, "na", "raise", ConstructionError(c),
                  <<>>, <<>>, <<>>, <<>>, <<>>, <<>>)

Init ==
  /\ cfg \in AllConfigs({1}, 1..MaxQ, {MaxPop})
  /\ trials = <<>>
  /\ completedLog = <<>>
  /\ phaseLog = <<>>
  /\ lastCall = AfterConstruction(cfg)

Next == Suggest \/ Update

Spec == Init /\ [][Next]_vars

(***************************************************************************)
(* One suggest call on a designer in any state its life can reach, with    *)
(* larger batches and populations.                                         *)
(***************************************************************************)
InitSuggest ==
  /\ cfg \in AllConfigs({1}, 1..AcqfMaxQ, {AcqfMaxPop})
  /\ trials \in SeqsUpTo(TrialUniverse(1), MaxHist)
  /\ completedLog = trials
  /\ phaseLog = <<>>
  /\ lastCall = AfterConstruction(cfg)

SuggestOnce ==
  /\ lastCall.op = "none"
  /\ Suggest

NextSuggest == SuggestOnce

SpecSuggest == InitSuggest /\ [][NextSuggest]_vars

(***************************************************************************)
(* One optimize_acqf call of the evolutionary configuration, over a        *)
(* two-dimensional search space; the record keeps the call's local arrays. *)
(***************************************************************************)
InitAcqf ==
  /\ cfg \in {c \in AllConfigs({2}, 1..AcqfMaxQ, {AcqfMaxPop}) :
                /\ c.acqf_optimizer = "nsgaii"
                /\ c.space = "continuous" /\ c.num_metrics = 1 /\ c.n_init = 0}
  /\ trials = <<>>
  /\ completedLog = <<>>
  /\ phaseLog = <<>>
  /\ lastCall = NoCall

OptimizeAcqfOnce ==
  /\ lastCall.op = "none"
  /\ \E env \in AcqfEnvs(cfg) :
     \E o \in OptimizeAcqf(cfg, env) :
       lastCall' = CallRecord("optimize_acqf", NoCount, "model", o.outcome, o.error,
                              o.steps, o.next_X, o.pop_X, o.pareto_X, o.diff_X, <<>>)
  /\ UNCHANGED <<cfg, trials, completedLog, phaseLog>>

NextAcqf == OptimizeAcqfOnce

SpecAcqf == InitAcqf /\ [][NextAcqf]_vars

(***************************************************************************)
(* The constructor called with any arguments, supported or not, and one    *)
(* suggest call on the designer it leaves, if it leaves one.               *)
(***************************************************************************)
\* names the enumerations do not hold
ArgumentConfigs ==
  {c \in [n_init : 0..MaxNInit, q : {1}, acqf_optimizer : AcqfOptimizers \cup {"cmaes"},
          acqf_type : {"single", "list"},
          acqf_names : {<<"qEI">>, <<"qlogEI">>, <<"EI">>, <<"">>, <<>>,
                        <<"qEI", "qUCB">>, <<"qEI", "EI">>},
          epochs : {NotConfigured, 0, MaxEpochs}, space : {"continuous"},
          num_metrics : {1}, dim : {1}, max_pop : {MaxPop},
          mll_optimizer : MllOptimizers \cup {"sgd"},
          mean_type : {NoneValue, "constant", "linear"},
          kernel_type : {NoneValue, "kumar", "rbf"}] :
     c.acqf_type = "single" => Len(c.acqf_names) = 1}

InitConfig ==
  /\ cfg \in ArgumentConfigs
  /\ trials \in SeqsUpTo(TrialUniverse(1), MaxHist)
  /\ completedLog = trials
  /\ phaseLog = <<>>
  /\ lastCall = AfterConstruction(cfg)

NextConfig == SuggestOnce

SpecConfig == InitConfig /\ [][NextConfig]_vars

(***************************************************************************)
(* Properties.                                                             *)
(***************************************************************************)
IsSuggest == lastCall.op = "suggest"

IsAcqf == lastCall.op = "optimize_acqf" /\ lastCall.outcome = "ok"

HasStep(name) == \E i \in DOMAIN lastCall.steps : lastCall.steps[i] = name

StepCount(name) == Cardinality({i \in DOMAIN lastCall.steps : lastCall.steps[i] = name})

RowsFrom(src) == {i \in DOMAIN lastCall.ret : lastCall.ret[i].src = src}

InBounds(x) == \A j \in DOMAIN x : Lb <= x[j] /\ x[j] <= Ub

DistinctIdx(rows) == \A i, j \in DOMAIN rows : i # j => rows[i].idx # rows[j].idx

\* C1: with len(History) >= n_init, every suggest(count) that returns
\* normally returns exactly q trials, whatever count is and whichever
\* acquisition optimizer is configured.
C1_ModelBatchHasQ ==
  (IsSuggest /\ Len(trials) >= cfg.n_init /\ lastCall.outcome = "ok")
    => Len(lastCall.ret) = cfg.q

C1_Witness ==
  /\ IsSuggest /\ Len(trials) >= cfg.n_init /\ lastCall.outcome = "ok"
  /\ cfg.acqf_optimizer = "nsgaii"
  /\ lastCall.count # NoCount /\ lastCall.count # cfg.q
  /\ RowsFrom("pareto") # {} /\ RowsFrom("diff") # {} /\ RowsFrom("random") # {}

\* C2: with len(History) < n_init, suggest(count) returns what the random
\* sub-designer's suggest(count) returns, and calls nothing else: no
\* converter, no surrogate, no acquisition function, no optimizer.
C2_BootstrapDelegates ==
  (IsSuggest /\ Len(trials) < cfg.n_init)
    => /\ lastCall.outcome = "ok"
       /\ lastCall.steps = <<"init_designer.suggest">>
       /\ lastCall.ret \in RandomSuggest(cfg.dim, lastCall.count)

C2_Witness ==
  /\ IsSuggest /\ Len(trials) < cfg.n_init
  /\ lastCall.count = NoCount
  /\ cfg.acqf_optimizer = "nsgaii"

\* C3 as stated: for every integer count <= n_init - len(History), suggest
\* is served by the random sub-designer and never takes the model-based path.
C3_AnyCountBootstrap ==
  (IsSuggest /\ lastCall.count # NoCount /\ lastCall.count <= cfg.n_init - Len(trials))
    => /\ lastCall.phase = "bootstrap"
       /\ \A i \in DOMAIN lastCall.ret :
            lastCall.ret[i].src = "random" /\ InBounds(lastCall.ret[i].parameters)

\* C3, amended: for every count with 1 <= count <= n_init - len(History),
\* suggest is served by the random sub-designer alone, every returned point
\* inside [lb, ub], and it never takes the model-based path.
C3_PositiveCountBootstrap ==
  (IsSuggest /\ 1 <= lastCall.count /\ lastCall.count <= cfg.n_init - Len(trials))
    => /\ lastCall.phase = "bootstrap"
       /\ lastCall.steps = <<"init_designer.suggest">>
       /\ \A i \in DOMAIN lastCall.ret :
            lastCall.ret[i].src = "random" /\ InBounds(lastCall.ret[i].parameters)

C3_Witness ==
  /\ IsSuggest /\ 1 <= lastCall.count /\ lastCall.count <= cfg.n_init - Len(trials)
  /\ lastCall.ret # <<>>

\* C4: the branch suggest takes is bootstrap exactly when
\* len(History) < n_init, and once a suggest has taken the model-based
\* branch no later suggest takes the bootstrap branch.
C4_PhaseOneWay ==
  /\ IsSuggest => (lastCall.phase = "bootstrap" <=> Len(trials) < cfg.n_init)
  /\ phaseLog \in {<<>>, <<"bootstrap">>, <<"model">>, <<"bootstrap", "model">>}

C4_Witness ==
  /\ phaseLog = <<"bootstrap", "model">>
  /\ IsSuggest /\ lastCall.phase = "model"
  /\ Len(trials) > cfg.n_init

\* C5: the history is the concatenation, in call order, of every batch
\* handed to update, duplicates and never-suggested trials included, and a
\* step never removes, replaces or reorders what the history already holds.
C5_HistoryIsConcatenation ==
  /\ [](trials = completedLog)
  /\ [][/\ Len(trials') >= Len(trials)
        /\ SubSeq(trials', 1, Len(trials)) = trials]_vars

C5_Witness ==
  /\ lastCall.op = "update" /\ Len(lastCall.completed) = 1
  /\ Len(trials) = 2 /\ trials[1] = trials[2]
  /\ phaseLog = <<>>

\* C6: suggest leaves the history as it found it, whether it returns or
\* raises; only update changes it.
C6_OnlyUpdateWrites == [][trials' # trials => lastCall'.op = "update"]_vars

C6_Witness ==
  /\ IsSuggest /\ lastCall.phase = "model" /\ lastCall.outcome = "raise"
  /\ trials # <<>> /\ trials = completedLog

\* C7: evolutionary assembly with |pareto_X| >= q: the batch is q rows of
\* pareto_X at pairwise distinct indices, none from diff_X, and the random
\* sub-designer is not called.
C7_ParetoOnly ==
  (IsAcqf /\ Len(lastCall.pareto_X) >= cfg.q)
    => /\ Len(lastCall.ret) = cfg.q
       /\ \A i \in DOMAIN lastCall.ret :
            /\ lastCall.ret[i].src = "pareto"
            /\ lastCall.ret[i].idx \in DOMAIN lastCall.pareto_X
            /\ lastCall.ret[i].x = lastCall.pareto_X[lastCall.ret[i].idx]
       /\ DistinctIdx(lastCall.ret)
       /\ ~HasStep("init_designer.suggest")

C7_Witness ==
  /\ IsAcqf /\ Len(lastCall.pareto_X) >= cfg.q /\ cfg.q >= 2
  /\ lastCall.diff_X # <<>>

\* C8: evolutionary assembly with p = |pareto_X| < q and |diff_X| >= q - p:
\* the batch is the p rows of pareto_X, then q - p rows of diff_X at pairwise
\* distinct indices, with no random fill and no call of the random
\* sub-designer.
C8_ParetoThenDiff ==
  (IsAcqf /\ Len(lastCall.pareto_X) < cfg.q
          /\ Len(lastCall.diff_X) >= cfg.q - Len(lastCall.pareto_X))
    => LET p == Len(lastCall.pareto_X)
           tail == SubSeq(lastCall.ret, p + 1, Len(lastCall.ret))
       IN  /\ Len(lastCall.ret) = cfg.q
           /\ SubSeq(lastCall.ret, 1, p) = AllRows("pareto", lastCall.pareto_X)
           /\ \A i \in DOMAIN tail :
                /\ tail[i].src = "diff"
                /\ tail[i].idx \in DOMAIN lastCall.diff_X
                /\ tail[i].x = lastCall.diff_X[tail[i].idx]
           /\ DistinctIdx(tail)
           /\ ~HasStep("init_designer.suggest")

C8_Witness ==
  /\ IsAcqf /\ Len(lastCall.pareto_X) >= 1 /\ Len(lastCall.pareto_X) < cfg.q
  /\ Len(lastCall.diff_X) > cfg.q - Len(lastCall.pareto_X)

\* C9: evolutionary assembly with p = |pareto_X| < q and |diff_X| < q - p:
\* the batch is the rows of pareto_X, then every row of diff_X exactly once,
\* then q - p - |diff_X| points of one call of the random sub-designer; its
\* length is q.
C9_ParetoDiffRandom ==
  (IsAcqf /\ Len(lastCall.pareto_X) < cfg.q
          /\ Len(lastCall.diff_X) < cfg.q - Len(lastCall.pareto_X))
    => LET p == Len(lastCall.pareto_X)
           nd == Len(lastCall.diff_X)
           mid == SubSeq(lastCall.ret, p + 1, p + nd)
           tail == SubSeq(lastCall.ret, p + nd + 1, Len(lastCall.ret))
       IN  /\ Len(lastCall.ret) = cfg.q
           /\ SubSeq(lastCall.ret, 1, p) = AllRows("pareto", lastCall.pareto_X)
           /\ Len(mid) = nd
           /\ \A i \in DOMAIN mid :
                /\ mid[i].src = "diff"
                /\ mid[i].idx \in DOMAIN lastCall.diff_X
                /\ mid[i].x = lastCall.diff_X[mid[i].idx]
           /\ DistinctIdx(mid)
           /\ Len(tail) = cfg.q - p - nd
           /\ \A i \in DOMAIN tail : tail[i].src = "random" /\ tail[i].idx = i
           /\ StepCount("init_designer.suggest") = 1

C9_Witness ==
  /\ IsAcqf /\ Len(lastCall.pareto_X) >= 1 /\ Len(lastCall.diff_X) >= 1
  /\ Len(lastCall.diff_X) < cfg.q - Len(lastCall.pareto_X)

\* pop_X \ pareto_X by comparison of whole rows
WholeRowDiff(pop_X, pareto_X) ==
  SelectSeq(pop_X, LAMBDA x : \A i \in DOMAIN pareto_X : pareto_X[i] # x)

\* C10: diff_X is the rows of pop_X that equal no row of pareto_X in every
\* coordinate; a row sharing only some coordinate with a Pareto row stays.
C10_DiffIsWholeRowDifference ==
  IsAcqf => lastCall.diff_X = WholeRowDiff(lastCall.pop_X, lastCall.pareto_X)

\* C11 as stated: with the evolutionary optimizer and a single acquisition
\* type, a model-based suggest that gets to optimizing the acquisition
\* function logs a warning, does not raise and returns q trials.
C11_SingleTypeEvolutionaryReturns ==
  (IsSuggest /\ lastCall.phase = "model" /\ cfg.acqf_optimizer = "nsgaii"
     /\ cfg.acqf_type = "single" /\ HasStep("optimize_acqf"))
    => /\ HasStep("logger.warning")
       /\ lastCall.outcome = "ok"
       /\ Len(lastCall.ret) = cfg.q

\* C12: with two metrics or more, every suggest with len(History) >= n_init
\* raises before a surrogate is built or fitted and returns no trial, and
\* every suggest with len(History) < n_init returns its random batch.
C12_MultiObjectiveRaises ==
  (IsSuggest /\ cfg.num_metrics >= 2)
    => IF Len(trials) >= cfg.n_init
       THEN /\ lastCall.outcome = "raise"
            /\ lastCall.error = "Unsupported for multiobjective BO"
            /\ ~HasStep("create_model") /\ ~HasStep("optimize_model")
            /\ lastCall.ret = <<>>
       ELSE /\ lastCall.outcome = "ok"
            /\ Len(lastCall.ret) >= 1

C12_Witness ==
  /\ IsSuggest /\ cfg.num_metrics = 2 /\ Len(trials) >= 1
  /\ phaseLog = <<"bootstrap", "model">>
  /\ lastCall.outcome = "raise"

C14_BatchInBounds ==
  (IsSuggest /\ lastCall.phase = "model" /\ lastCall.outcome = "ok")
    => \A i \in DOMAIN lastCall.ret : InBounds(lastCall.ret[i].parameters)

C14_Witness ==
  /\ IsSuggest /\ lastCall.phase = "model" /\ lastCall.outcome = "ok"
  /\ lastCall.count = NoCount
  /\ RowsFrom("pareto") # {} /\ RowsFrom("diff") # {} /\ RowsFrom("random") # {}

\* C15 as stated: the continuous optimizer is called only by a designer
\* whose acquisition type is a single name, never with a list.
C15_ContinuousOnlySingle ==
  (Constructed /\ HasStep("botorch.optimize_acqf")) => cfg.acqf_type = "single"

\* C16 as stated: an evolutionary optimize_acqf makes exactly `epochs`
\* generations (200 when none is configured), each one suggest, evaluate,
\* update in this order, and reads result() and curr_pop() after the last.
C16_ExactlyEpochsGenerations ==
  (IsSuggest /\ cfg.acqf_optimizer = "nsgaii" /\ HasStep("optimize_acqf"))
    => SelectSeq(lastCall.steps,
                 LAMBDA st : st \in {"nsgaii.suggest", "experimenter.evaluate",
                                     "nsgaii.update", "nsgaii.result", "nsgaii.curr_pop"})
         = EpochSteps(Epochs(cfg)) \o <<"nsgaii.result", "nsgaii.curr_pop">>

\* the steps of a model-based suggest, without those made inside optimize_acqf
TopSteps ==
  SelectSeq(lastCall.steps,
            LAMBDA st : st \in {"converter.convert", "check_domain", "check_objective",
                                "standardize", "create_model", "optimize_model",
                                "create_acqf", "optimize_acqf", "converter.to_trials"})

ModelStepOrder ==
  <<"converter.convert", "check_domain", "check_objective", "standardize",
    "create_model", "optimize_model", "create_acqf", "optimize_acqf",
    "converter.to_trials">>

IsPrefix(a, b) == Len(a) <= Len(b) /\ a = SubSeq(b, 1, Len(a))

\* C17: a model-based suggest makes its steps in the one order convert,
\* check, standardize, fit, build the acquisition function, optimize it,
\* convert back, each at most once; it returns after all of them, and a
\* step that raises ends the call with no later step and no trial.
C17_FixedStepOrder ==
  (IsSuggest /\ lastCall.phase = "model")
    => /\ IsPrefix(TopSteps, ModelStepOrder)
       /\ lastCall.outcome = "ok" <=> TopSteps = ModelStepOrder
       /\ lastCall.outcome = "raise"
            => (lastCall.ret = <<>> /\ ~HasStep("converter.to_trials"))

C17_Witness ==
  /\ IsSuggest /\ lastCall.phase = "model"
  /\ lastCall.outcome = "raise" /\ lastCall.error = "fit failed"
  /\ TopSteps = SubSeq(ModelStepOrder, 1, 6)
  /\ Len(trials) >= 1

\* C18: the training data handed to the model factory is built from every
\* trial of the History at the time of the call, in order, and from nothing
\* else: it is the same for any two calls with equal History.
C18_TrainingDataIsWholeHistory ==
  (IsSuggest /\ HasStep("create_model"))
    => /\ lastCall.train = TrainingData(trials)
       /\ Len(lastCall.train.X) = Len(trials)
       /\ \A i \in DOMAIN trials : lastCall.train.X[i] = trials[i].x

C18_Witness ==
  /\ IsSuggest /\ HasStep("create_model") /\ lastCall.outcome = "ok"
  /\ Len(trials) = 2 /\ trials[1] # trials[2]
  /\ phaseLog = <<"bootstrap", "model">>

\* C19 as stated: every designer the constructor accepts has its optimizer,
\* mean and kernel names in their enumerations, never takes a
\* NotImplementedError branch, and has as acquisition type one of the four
\* names or a non-empty list of them.
C19_AcceptedNamesSupported ==
  Constructed
    => /\ cfg.acqf_optimizer \in AcqfOptimizers
       /\ cfg.mll_optimizer \in MllOptimizers
       /\ cfg.mean_type \in MeanTypes \cup {NoneValue}
       /\ cfg.kernel_type \in KernelTypes \cup {NoneValue}
       /\ lastCall.error # "NotImplementedError"
       /\ \A i \in DOMAIN cfg.acqf_names : cfg.acqf_names[i] \in AcqfTypes
       /\ cfg.acqf_names # <<>>

====
